---- MODULE Spec2Model ----
(***************************************************************************)
(* A model of the brainfuck lexer (src/src/lexer.rs) and of the            *)
(* table-driven interpreter SimpleInterpreter (src/src/interpreter.rs).    *)
(* Positions in the token sequence, the pointer and the keys of the jump   *)
(* table are 0-based as in the source; TLA+ sequences are 1-based, so the  *)
(* element at position i of a sequence s is At(s, i) = s[i + 1].           *)
(***************************************************************************)
EXTENDS Integers, Sequences, FiniteSets, TLC

\* ------------------------------------------------------------------------
\* Bounds of the model
\* ------------------------------------------------------------------------
\* longest program (in tokens) handed to eval in Spec
MaxLen == 3
\* longest program (in tokens) handed to eval in SpecReuse
MaxReuseLen == 2
\* number of eval calls made on the one interpreter instance in SpecReuse
MaxEvals == 2
\* longest program (in tokens) handed to eval in SpecBrackets
MaxBracketLen == 6
\* SpecStraight: the longest program without brackets and without input or output
MaxStraightLen == 4
\* SpecLex: the longest source text
MaxSourceLen == 3
\* the sources of the programs are laid out LineWidth instruction bytes a line
LineWidth == 2
\* the programs of SpecDouble hold 1..DoubleMax increments before their loop
DoubleMax == 127
\* a run is followed until it has printed MaxOutput bytes (a loop can print for ever)
MaxOutput == 13
\* a run is followed until it has read MaxInput lines (a loop can read for ever)
MaxInput == 3

\* ------------------------------------------------------------------------
\* Bytes of the source text (lexer.rs, Lexer::lex)
\* ------------------------------------------------------------------------
Newline == 10
Plus == 43
Comma == 44
Minus == 45
Dot == 46
Less == 60
Greater == 62
LeftBracket == 91
RightBracket == 93

At(s, i) == s[i + 1]

Location(line, col) == [line |-> line, col |-> col]

Annotation(value, location) == [value |-> value, location |-> location]

TokenKind ==
    {"IncrementPointer", "DecrementPointer", "Increment", "Decrement",
     "Output", "Input", "JumpForward", "JumpBackward"}

InstructionBytes ==
    {Greater, Less, Plus, Minus, Dot, Comma, LeftBracket, RightBracket}

\* KindOfByte gone wrong: '>' and '<' are taken for each other
KindOfByte_swapped(c) ==
    CASE c = Greater -> "DecrementPointer"
      [] c = Less -> "IncrementPointer"
      [] c = Plus -> "Increment"
      [] c = Minus -> "Decrement"
      [] c = Dot -> "Output"
      [] c = Comma -> "Input"
      [] c = LeftBracket -> "JumpForward"
      [] c = RightBracket -> "JumpBackward"

\* the match of Lexer::lex: the token kind of an instruction byte
KindOfByte(c) ==
    CASE c = Greater -> "IncrementPointer"
      [] c = Less -> "DecrementPointer"
      [] c = Plus -> "Increment"
      [] c = Minus -> "Decrement"
      [] c = Dot -> "Output"
      [] c = Comma -> "Input"
      [] c = LeftBracket -> "JumpForward"
      [] c = RightBracket -> "JumpBackward"

\* newline_arm gone wrong: col is reset to 1, and the advance that follows
\* puts the byte after the newline at column 2
newline_arm_col_one(st) == [st EXCEPT !.line = @ + 1, !.col = 1]

\* Lexer::lex, lines 76-80: the arm of the match for a newline
newline_arm(st) == [st EXCEPT !.line = @ + 1, !.col = 0]

\* Lexer::lex, lines 67-85: one turn of the loop, on byte k (1-based) of the
\* input, from the running line and col and the tokens pushed so far
lex_byte(input, st, k) ==
    LET c == input[k]
        arm == IF c \in InstructionBytes
               THEN [st EXCEPT !.tokens =
                        Append(@, Annotation(KindOfByte(c), Location(st.line, st.col)))]
               ELSE IF c = Newline THEN newline_arm(st)
               ELSE st
    IN [arm EXCEPT !.col = @ + 1]

\* Lexer::lex, line 66: the turns of the loop for the bytes lo..hi, in order.
\* The range is halved, and the first half is worked out before the second is
\* entered (line never decreases, so the test always passes), which keeps the
\* evaluation shallow on a long input
RECURSIVE lex_range(_, _, _, _)
lex_range(input, st, lo, hi) ==
    IF lo > hi THEN st
    ELSE IF lo = hi THEN lex_byte(input, st, lo)
    ELSE LET mid == (lo + hi) \div 2
             first == lex_range(input, st, lo, mid)
         IN IF first.line >= st.line
            THEN lex_range(input, first, mid + 1, hi)
            ELSE first

lex(input) ==
    lex_range(input, [line |-> 1, col |-> 1, tokens |-> <<>>], 1, Len(input)).tokens

\* ------------------------------------------------------------------------
\* Results of eval
\* ------------------------------------------------------------------------
InterpreterErrorKind ==
    {"UnmatchedJumpForwardError", "UnmatchedJumpBackwardError", "PointerError"}

Ok(v) == [tag |-> "Ok", value |-> v]
Err(kind, location) == [tag |-> "Err", value |-> kind, location |-> location]
\* a Rust panic (index out of bounds, unwrap or expect on a failure)
Panic == [tag |-> "Panic"]
NoResult == [tag |-> "None"]

\* ------------------------------------------------------------------------
\* The jump table (HashMap<usize, usize>) as a function on a finite set
\* ------------------------------------------------------------------------
EmptyTable == [k \in {} |-> 0]

\* HashMap::insert
insert(table, k, v) ==
    [x \in (DOMAIN table) \cup {k} |-> IF x = k THEN v ELSE table[x]]

\* ------------------------------------------------------------------------
\* The programs handed to eval: main.rs reads a source text and lexes it
\* ------------------------------------------------------------------------
Seqs(S, n) == UNION {[1..k -> S] : k \in 0..n}

\* a source text holding the instruction bytes s, LineWidth of them a line
RECURSIVE Layout(_)
Layout(s) ==
    IF Len(s) <= LineWidth THEN s
    ELSE SubSeq(s, 1, LineWidth) \o <<Newline>>
         \o Layout(SubSeq(s, LineWidth + 1, Len(s)))

ProgramsOver(bytes, n) == {lex(Layout(s)) : s \in Seqs(bytes, n)}

\* Spec: every program of at most MaxLen instructions
Programs == ProgramsOver(InstructionBytes, MaxLen)
\* SpecReuse: the programs of at most MaxReuseLen instructions that move the
\* pointer forward, print and loop
ReusePrograms == ProgramsOver({Greater, Dot, LeftBracket, RightBracket}, MaxReuseLen)
\* SpecBrackets: the programs of at most MaxBracketLen brackets and increments
BracketPrograms == ProgramsOver({Plus, LeftBracket, RightBracket}, MaxBracketLen)

\* the source of the program of test_interpreter, "++>++" and "-><" on two lines
TestSource ==
    <<Plus, Plus, Greater, Plus, Plus, Newline, Minus, Greater, Less>>
\* SpecStraight: the programs of at most MaxStraightLen instructions that move
\* the pointer and change the cell, and the program of test_interpreter
StraightPrograms ==
    ProgramsOver({Greater, Less, Plus, Minus}, MaxStraightLen) \cup {lex(TestSource)}

\* the source text of the Hello World program, 106 bytes on one line
HelloSource ==
    <<
      Plus, Plus, Plus, Plus, Plus, Plus, Plus, Plus,
      LeftBracket, Greater, Plus, Plus, Plus, Plus, LeftBracket, Greater,
      Plus, Plus, Greater, Plus, Plus, Plus, Greater, Plus,
      Plus, Plus, Greater, Plus, Less, Less, Less, Less,
      Minus, RightBracket, Greater, Plus, Greater, Plus, Greater, Minus,
      Greater, Greater, Plus, LeftBracket, Less, RightBracket, Less, Minus,
      RightBracket, Greater, Greater, Dot, Greater, Minus, Minus, Minus,
      Dot, Plus, Plus, Plus, Plus, Plus, Plus, Plus,
      Dot, Dot, Plus, Plus, Plus, Dot, Greater, Greater,
      Dot, Less, Minus, Dot, Less, Dot, Plus, Plus,
      Plus, Dot, Minus, Minus, Minus, Minus, Minus, Minus,
      Dot, Minus, Minus, Minus, Minus, Minus, Minus, Minus,
      Minus, Dot, Greater, Greater, Plus, Dot, Greater, Plus,
      Plus, Dot
    >>

\* a byte that is no instruction and no newline, the letter x
Letter == 120
\* the source of test_lexer, "+[.+]" and ">,-.<" on two lines
LexerTestSource ==
    <<Plus, LeftBracket, Dot, Plus, RightBracket, Newline,
      Greater, Comma, Minus, Dot, Less>>
\* SpecLex: every source text of at most MaxSourceLen bytes that are
\* instructions, newlines or the letter, and the source of test_lexer
LexSources ==
    Seqs(InstructionBytes \cup {Newline, Letter}, MaxSourceLen) \cup {LexerTestSource}

\* n increments and the doubling loop "[>++<-]"
DoubleSource(n) ==
    [i \in 1..n |-> Plus]
    \o <<LeftBracket, Greater, Plus, Plus, Less, Minus, RightBracket>>

\* SpecDouble: the doubling programs
DoublePrograms == {lex(DoubleSource(n)) : n \in 1..DoubleMax}

\* the lines the input channel can deliver to one read_line: nothing at all
\* (end of input), an empty line, a line of two characters
Lines == {<<>>, <<Newline>>, <<65, 66, Newline>>}

\* ------------------------------------------------------------------------
\* SimpleInterpreter
\* ------------------------------------------------------------------------
VARIABLES
    pointer,          \* self.pointer
    program_cursor,   \* self.program_cursor
    cells,            \* self.cells
    program,          \* self.program
    jump_table,       \* self.jump_table
    output,           \* the bytes written to standard output so far
    consumed,         \* the lines read from standard input so far, in order
    phase,            \* "idle": no eval call is running; "running": inside the
                      \* loop of eval; "panicked": the thread has panicked
    result,           \* what the last eval call returned
    evals,            \* the number of eval calls made so far
    at_call,          \* the instance and the channels as the last eval call found them
    source,           \* main: the source text read from the script file
    lib               \* an Interpreter of lib.rs, with its own output and result

vars ==
    <<pointer, program_cursor, cells, program, jump_table, output, consumed,
      phase, result, evals, at_call, source, lib>>

\* Interpreter::new of lib.rs, nothing printed yet
Interpreter_new ==
    [pointer |-> 0, program_cursor |-> 0, cells |-> <<0>>, program |-> <<>>,
     output |-> <<>>, phase |-> "idle", result |-> [tag |-> "None"]]

Snapshot ==
    [pointer |-> pointer, program_cursor |-> program_cursor, cells |-> cells,
     program |-> program, jump_table |-> jump_table, output |-> output,
     consumed |-> consumed]

\* SimpleInterpreter::new, nothing printed or read yet
Init ==
    /\ pointer = 0
    /\ program_cursor = 0
    /\ cells = <<0>>
    /\ program = <<>>
    /\ jump_table = EmptyTable
    /\ output = <<>>
    /\ consumed = <<>>
    /\ phase = "idle"
    /\ result = NoResult
    /\ evals = 0
    /\ at_call = [pointer |-> 0, program_cursor |-> 0, cells |-> <<0>>,
                  program |-> <<>>, jump_table |-> EmptyTable, output |-> <<>>,
                  consumed |-> <<>>]
    /\ source = <<>>
    /\ lib = Interpreter_new

\* main, lines 48-51: the source text has been read, the interpreter is new
InitLex ==
    /\ pointer = 0
    /\ program_cursor = 0
    /\ cells = <<0>>
    /\ program = <<>>
    /\ jump_table = EmptyTable
    /\ output = <<>>
    /\ consumed = <<>>
    /\ phase = "idle"
    /\ result = NoResult
    /\ evals = 0
    /\ at_call = [pointer |-> 0, program_cursor |-> 0, cells |-> <<0>>,
                  program |-> <<>>, jump_table |-> EmptyTable, output |-> <<>>,
                  consumed |-> <<>>]
    /\ source \in LexSources
    /\ lib = Interpreter_new

\* insert_pair gone wrong: a pair found in the table is taken out of it
insert_pair_toggle(table, i, forward) ==
    IF i \in DOMAIN table
    THEN [x \in (DOMAIN table) \ {i, forward} |-> table[x]]
    ELSE insert(insert(table, i, forward), forward, i)

\* init, lines 107-109: the popped bracket and the current one, both ways
insert_pair(table, i, forward) == insert(insert(table, i, forward), forward, i)

\* pop gone wrong: the bracket pushed first is taken (a queue, not a stack)
pop_front(forward_brackets) ==
    [forward |-> forward_brackets[1],
     rest |-> SubSeq(forward_brackets, 2, Len(forward_brackets))]

\* init, line 107: Vec::pop takes the bracket pushed last
pop(forward_brackets) ==
    [forward |-> forward_brackets[Len(forward_brackets)],
     rest |-> SubSeq(forward_brackets, 1, Len(forward_brackets) - 1)]

\* init, lines 111-114: the error for a backward bracket with nothing pending
unmatched_backward(prog, i) ==
    Err("UnmatchedJumpForwardError", At(prog, i).location)

\* unmatched_forward gone wrong: the innermost pending bracket is reported
unmatched_forward_last(prog, forward_brackets) ==
    Err("UnmatchedJumpForwardError",
        At(prog, forward_brackets[Len(forward_brackets)]).location)

\* init, lines 120-125: the error for forward brackets left pending
unmatched_forward(prog, forward_brackets) ==
    Err("UnmatchedJumpForwardError", At(prog, forward_brackets[1]).location)

\* init, lines 103-118: one turn of the loop, on the token at position i, from
\* the pending forward brackets and the table so far; res is the error init
\* has returned with, if it has
init_token(prog, st, i) ==
    IF st.res.tag = "Err" THEN st
    ELSE IF At(prog, i).value = "JumpForward"
    THEN [st EXCEPT !.forward_brackets = Append(@, i)]
    ELSE IF At(prog, i).value = "JumpBackward"
    THEN IF Len(st.forward_brackets) > 0
         THEN LET popped == pop(st.forward_brackets) IN
              [st EXCEPT !.forward_brackets = popped.rest,
                         !.jump_table = insert_pair(@, i, popped.forward)]
         ELSE [st EXCEPT !.res = unmatched_backward(prog, i)]
    ELSE st

\* init, line 102: the turns of the loop for the positions lo..hi, in order,
\* up to the one init returns from. The range is halved, which keeps the
\* evaluation shallow on a long program
RECURSIVE init_range(_, _, _, _)
init_range(prog, st, lo, hi) ==
    IF lo > hi THEN st
    ELSE IF lo = hi THEN init_token(prog, st, lo)
    ELSE LET mid == (lo + hi) \div 2
             first == init_range(prog, st, lo, mid)
         IN IF first.res.tag = "Err"
            THEN first
            ELSE init_range(prog, first, mid + 1, hi)

\* init, lines 100-126, on self.program = prog and self.jump_table = table (the
\* table is never cleared: init inserts into the one it finds); gives the
\* result and the table as init left it
init(prog, table) ==
    LET st == init_range(prog,
                         [forward_brackets |-> <<>>, jump_table |-> table,
                          res |-> NoResult],
                         0, Len(prog) - 1)
    IN IF st.res.tag = "Err"
       THEN [res |-> st.res, jump_table |-> st.jump_table]
       ELSE IF Len(st.forward_brackets) > 0
       THEN [res |-> unmatched_forward(prog, st.forward_brackets),
             jump_table |-> st.jump_table]
       ELSE [res |-> Ok(0), jump_table |-> st.jump_table]

\* eval gone wrong: the error of init is dropped and the loop is entered
eval_lazy(prog) ==
    /\ phase = "idle"
    /\ LET r == init(prog, jump_table) IN
       /\ at_call' = Snapshot
       /\ evals' = evals + 1
       /\ program' = prog
       /\ cells' = <<0>>
       /\ jump_table' = r.jump_table
       /\ result' = NoResult
       /\ phase' = "running"
       /\ UNCHANGED <<pointer, program_cursor, output, consumed>>

\* eval, lines 129-133: the call up to the loop. The program is copied in, init
\* resets the cells (and only the cells) and scans the brackets; its error is
\* returned at once
eval(prog) ==
    /\ phase = "idle"
    /\ LET r == init(prog, jump_table) IN
       /\ at_call' = Snapshot
       /\ evals' = evals + 1
       /\ program' = prog
       /\ cells' = <<0>>
       /\ jump_table' = r.jump_table
       /\ IF r.res.tag = "Err"
          THEN /\ result' = r.res
               /\ phase' = "idle"
          ELSE /\ result' = NoResult
               /\ phase' = "running"
       /\ UNCHANGED <<pointer, program_cursor, output, consumed>>

\* eval, lines 134-136: the loop goes round once more, on a token of this kind
dispatch(kind) ==
    /\ phase = "running"
    /\ program_cursor < Len(program)
    /\ At(program, program_cursor).value = kind

command == At(program, program_cursor)

\* self.cells[self.pointer] is in bounds
InBounds == pointer < Len(cells)

\* an index out of bounds, an unwrap of None, an expect of an error
panic ==
    /\ result' = Panic
    /\ phase' = "panicked"

\* eval, lines 146-148: an error of the handler is returned
return_err(e) ==
    /\ result' = e
    /\ phase' = "idle"

\* wrapping_add gone wrong: the cell stays at 255
saturating_add(v) == IF v = 255 THEN 255 ELSE v + 1

wrapping_add(v) == (v + 1) % 256
wrapping_sub(v) == (v + 255) % 256

\* self.cells[self.pointer] = v
set_cell(v) == [cells EXCEPT ![pointer + 1] = v]

\* eval_increment_pointer gone wrong: a cell is pushed at every move forward
eval_increment_pointer_push ==
    /\ dispatch("IncrementPointer")
    /\ pointer' = pointer + 1
    /\ cells' = Append(cells, 0)
    /\ program_cursor' = program_cursor + 1
    /\ UNCHANGED <<program, jump_table, output, consumed, phase, result, evals, at_call>>

eval_increment_pointer ==
    /\ dispatch("IncrementPointer")
    /\ pointer' = pointer + 1
    /\ cells' = IF Len(cells) <= pointer + 1 THEN Append(cells, 0) ELSE cells
    /\ program_cursor' = program_cursor + 1
    /\ UNCHANGED <<program, jump_table, output, consumed, phase, result, evals, at_call>>

\* eval_decrement_pointer gone wrong: at 0 the pointer stays and the loop goes on
eval_decrement_pointer_saturating ==
    /\ dispatch("DecrementPointer")
    /\ pointer' = IF pointer = 0 THEN 0 ELSE pointer - 1
    /\ program_cursor' = program_cursor + 1
    /\ UNCHANGED <<cells, program, jump_table, output, consumed, phase, result,
                   evals, at_call>>

eval_decrement_pointer ==
    /\ dispatch("DecrementPointer")
    /\ IF pointer = 0
       THEN /\ return_err(Err("PointerError", command.location))
            /\ UNCHANGED <<pointer, program_cursor>>
       ELSE /\ pointer' = pointer - 1
            /\ program_cursor' = program_cursor + 1
            /\ UNCHANGED <<phase, result>>
    /\ UNCHANGED <<cells, program, jump_table, output, consumed, evals, at_call>>

eval_increment ==
    /\ dispatch("Increment")
    /\ IF InBounds
       THEN /\ cells' = set_cell(wrapping_add(cells[pointer + 1]))
            /\ program_cursor' = program_cursor + 1
            /\ UNCHANGED <<phase, result>>
       ELSE /\ panic
            /\ UNCHANGED <<cells, program_cursor>>
    /\ UNCHANGED <<pointer, program, jump_table, output, consumed, evals, at_call>>

eval_decrement ==
    /\ dispatch("Decrement")
    /\ IF InBounds
       THEN /\ cells' = set_cell(wrapping_sub(cells[pointer + 1]))
            /\ program_cursor' = program_cursor + 1
            /\ UNCHANGED <<phase, result>>
       ELSE /\ panic
            /\ UNCHANGED <<cells, program_cursor>>
    /\ UNCHANGED <<pointer, program, jump_table, output, consumed, evals, at_call>>

\* print!("{}", v as char): the UTF-8 encoding of the character U+00v
char_bytes(v) == IF v < 128 THEN <<v>> ELSE <<192 + (v \div 64), 128 + (v % 64)>>

\* eval_output gone wrong: what is written is the pointer, not the cell
eval_output_pointer ==
    /\ dispatch("Output")
    /\ Len(output) < MaxOutput
    /\ IF InBounds
       THEN /\ output' = output \o char_bytes(pointer)
            /\ program_cursor' = program_cursor + 1
            /\ UNCHANGED <<phase, result>>
       ELSE /\ panic
            /\ UNCHANGED <<output, program_cursor>>
    /\ UNCHANGED <<pointer, cells, program, jump_table, consumed, evals, at_call>>

eval_output ==
    /\ dispatch("Output")
    /\ Len(output) < MaxOutput
    /\ IF InBounds
       THEN /\ output' = output \o char_bytes(cells[pointer + 1])
            /\ program_cursor' = program_cursor + 1
            /\ UNCHANGED <<phase, result>>
       ELSE /\ panic
            /\ UNCHANGED <<output, program_cursor>>
    /\ UNCHANGED <<pointer, cells, program, jump_table, consumed, evals, at_call>>

\* first_byte gone wrong: the byte kept is the last of the line
last_byte(buf) == buf[Len(buf)]

\* buf.as_bytes()[0]
first_byte(buf) == buf[1]

\* read_line gives the next line of the input channel, or nothing at its end;
\* buf.as_bytes()[0] panics on nothing, the store panics out of bounds
eval_input ==
    /\ dispatch("Input")
    /\ Len(consumed) < MaxInput
    /\ \E buf \in Lines :
          /\ consumed' = IF Len(buf) > 0 THEN Append(consumed, buf) ELSE consumed
          /\ IF Len(buf) > 0 /\ InBounds
             THEN /\ cells' = set_cell(first_byte(buf))
                  /\ program_cursor' = program_cursor + 1
                  /\ UNCHANGED <<phase, result>>
             ELSE /\ panic
                  /\ UNCHANGED <<cells, program_cursor>>
    /\ UNCHANGED <<pointer, program, jump_table, output, evals, at_call>>

\* jump gone wrong: the cursor is set past the matching bracket
jump_past ==
    IF program_cursor \in DOMAIN jump_table
    THEN /\ program_cursor' = jump_table[program_cursor] + 1
         /\ UNCHANGED <<phase, result>>
    ELSE /\ panic
         /\ UNCHANGED program_cursor

\* *self.jump_table.get(&self.program_cursor).unwrap()
jump ==
    IF program_cursor \in DOMAIN jump_table
    THEN /\ program_cursor' = jump_table[program_cursor]
         /\ UNCHANGED <<phase, result>>
    ELSE /\ panic
         /\ UNCHANGED program_cursor

eval_jump_forward ==
    /\ dispatch("JumpForward")
    /\ IF InBounds
       THEN IF cells[pointer + 1] # 0
            THEN /\ program_cursor' = program_cursor + 1
                 /\ UNCHANGED <<phase, result>>
            ELSE jump
       ELSE /\ panic
            /\ UNCHANGED program_cursor
    /\ UNCHANGED <<pointer, cells, program, jump_table, output, consumed, evals, at_call>>

\* eval_jump_backward gone wrong: the loop is left whatever the cell holds
eval_jump_backward_through ==
    /\ dispatch("JumpBackward")
    /\ IF InBounds
       THEN /\ program_cursor' = program_cursor + 1
            /\ UNCHANGED <<phase, result>>
       ELSE /\ panic
            /\ UNCHANGED program_cursor
    /\ UNCHANGED <<pointer, cells, program, jump_table, output, consumed, evals, at_call>>

\* eval_jump_backward gone wrong: the test of the cell is the wrong way round
eval_jump_backward_inverted ==
    /\ dispatch("JumpBackward")
    /\ IF InBounds
       THEN IF cells[pointer + 1] # 0
            THEN /\ program_cursor' = program_cursor + 1
                 /\ UNCHANGED <<phase, result>>
            ELSE jump
       ELSE /\ panic
            /\ UNCHANGED program_cursor
    /\ UNCHANGED <<pointer, cells, program, jump_table, output, consumed, evals, at_call>>

eval_jump_backward ==
    /\ dispatch("JumpBackward")
    /\ IF InBounds
       THEN IF cells[pointer + 1] = 0
            THEN /\ program_cursor' = program_cursor + 1
                 /\ UNCHANGED <<phase, result>>
            ELSE jump
       ELSE /\ panic
            /\ UNCHANGED program_cursor
    /\ UNCHANGED <<pointer, cells, program, jump_table, output, consumed, evals, at_call>>

\* eval, lines 134 and 150: the cursor is at the end, Ok(0)
eval_return ==
    /\ phase = "running"
    /\ ~(program_cursor < Len(program))
    /\ result' = Ok(0)
    /\ phase' = "idle"
    /\ UNCHANGED <<pointer, program_cursor, cells, program, jump_table, output,
                   consumed, evals, at_call>>

\* ------------------------------------------------------------------------
\* lib.rs: Interpreter, which looks for the matching bracket at each jump.
\* An Interpreter is a record l; each handler gives the record it leaves
\* ------------------------------------------------------------------------
Interpreter_command(l) == At(l.program, l.program_cursor)

\* self.cells[self.pointer] is in bounds
Interpreter_InBounds(l) == l.pointer < Len(l.cells)

Interpreter_cell(l) == l.cells[l.pointer + 1]

Interpreter_panic(l) == [l EXCEPT !.result = Panic, !.phase = "panicked"]

\* eval, lines 259-261: an error of the handler is returned
Interpreter_return_err(l, kind) ==
    [l EXCEPT !.result = Err(kind, Interpreter_command(l).location),
              !.phase = "idle"]

Interpreter_eval_increment_pointer(l) ==
    [l EXCEPT !.pointer = @ + 1,
              !.cells = IF Len(@) <= l.pointer + 1 THEN Append(@, 0) ELSE @,
              !.program_cursor = @ + 1]

Interpreter_eval_decrement_pointer(l) ==
    IF l.pointer = 0
    THEN Interpreter_return_err(l, "PointerError")
    ELSE [l EXCEPT !.pointer = @ - 1, !.program_cursor = @ + 1]

Interpreter_eval_increment(l) ==
    IF Interpreter_InBounds(l)
    THEN [l EXCEPT !.cells[l.pointer + 1] = wrapping_add(@),
                   !.program_cursor = @ + 1]
    ELSE Interpreter_panic(l)

Interpreter_eval_decrement(l) ==
    IF Interpreter_InBounds(l)
    THEN [l EXCEPT !.cells[l.pointer + 1] = wrapping_sub(@),
                   !.program_cursor = @ + 1]
    ELSE Interpreter_panic(l)

Interpreter_eval_output(l) ==
    IF Interpreter_InBounds(l)
    THEN [l EXCEPT !.output = @ \o char_bytes(Interpreter_cell(l)),
                   !.program_cursor = @ + 1]
    ELSE Interpreter_panic(l)

\* buf is the line read_line gives, empty at the end of the input
Interpreter_eval_input(l, buf) ==
    IF Len(buf) > 0 /\ Interpreter_InBounds(l)
    THEN [l EXCEPT !.cells[l.pointer + 1] = first_byte(buf),
                   !.program_cursor = @ + 1]
    ELSE Interpreter_panic(l)

\* pair_forward gone wrong: dep is not counted, the first ']' is taken
RECURSIVE pair_forward_first(_, _, _, _)
pair_forward_first(prog, i, dep, cursor) ==
    IF ~(i < Len(prog)) THEN cursor
    ELSE IF At(prog, i).value = "JumpBackward" THEN i
    ELSE pair_forward_first(prog, i + 1, dep, cursor)

\* eval_jump_forward, lines 186-200: the loop from position i on with dep open
\* brackets; gives pair_backward_pos, which stays at the cursor when no
\* bracket is found
RECURSIVE pair_forward(_, _, _, _)
pair_forward(prog, i, dep, cursor) ==
    IF ~(i < Len(prog)) THEN cursor
    ELSE IF At(prog, i).value = "JumpForward"
    THEN pair_forward(prog, i + 1, dep + 1, cursor)
    ELSE IF At(prog, i).value = "JumpBackward"
    THEN IF dep = 1 THEN i ELSE pair_forward(prog, i + 1, dep - 1, cursor)
    ELSE pair_forward(prog, i + 1, dep, cursor)

\* eval_jump_backward, lines 216-230: the loop from position i down to 0;
\* gives pair_forward_pos
RECURSIVE pair_backward(_, _, _, _)
pair_backward(prog, i, dep, cursor) ==
    IF i < 0 THEN cursor
    ELSE IF At(prog, i).value = "JumpBackward"
    THEN pair_backward(prog, i - 1, dep + 1, cursor)
    ELSE IF At(prog, i).value = "JumpForward"
    THEN IF dep = 1 THEN i ELSE pair_backward(prog, i - 1, dep - 1, cursor)
    ELSE pair_backward(prog, i - 1, dep, cursor)

Interpreter_eval_jump_forward(l) ==
    IF ~Interpreter_InBounds(l) THEN Interpreter_panic(l)
    ELSE IF Interpreter_cell(l) # 0 THEN [l EXCEPT !.program_cursor = @ + 1]
    ELSE LET pair_backward_pos ==
                 pair_forward(l.program, l.program_cursor + 1, 1, l.program_cursor)
         IN IF l.program_cursor = pair_backward_pos
            THEN Interpreter_return_err(l, "UnmatchedJumpBackwardError")
            ELSE [l EXCEPT !.program_cursor = pair_backward_pos]

Interpreter_eval_jump_backward(l) ==
    IF ~Interpreter_InBounds(l) THEN Interpreter_panic(l)
    ELSE IF Interpreter_cell(l) = 0 THEN [l EXCEPT !.program_cursor = @ + 1]
    ELSE LET pair_forward_pos ==
                 pair_backward(l.program, l.program_cursor - 1, 1, l.program_cursor)
         IN IF l.program_cursor = pair_forward_pos
            THEN Interpreter_return_err(l, "UnmatchedJumpForwardError")
            ELSE [l EXCEPT !.program_cursor = pair_forward_pos]

\* init and eval, lines 241-246: the call up to the loop
Interpreter_eval(l, prog) ==
    [l EXCEPT !.program = prog, !.cells = <<0>>, !.result = NoResult,
              !.phase = "running"]

\* eval, lines 247-263: one turn of the loop, or the return at its end; buf
\* is the line an Input would read
Interpreter_turn(l, buf) ==
    IF ~(l.program_cursor < Len(l.program))
    THEN [l EXCEPT !.result = Ok(0), !.phase = "idle"]
    ELSE CASE Interpreter_command(l).value = "IncrementPointer" ->
                  Interpreter_eval_increment_pointer(l)
           [] Interpreter_command(l).value = "DecrementPointer" ->
                  Interpreter_eval_decrement_pointer(l)
           [] Interpreter_command(l).value = "Increment" -> Interpreter_eval_increment(l)
           [] Interpreter_command(l).value = "Decrement" -> Interpreter_eval_decrement(l)
           [] Interpreter_command(l).value = "Output" -> Interpreter_eval_output(l)
           [] Interpreter_command(l).value = "Input" -> Interpreter_eval_input(l, buf)
           [] Interpreter_command(l).value = "JumpForward" ->
                  Interpreter_eval_jump_forward(l)
           [] Interpreter_command(l).value = "JumpBackward" ->
                  Interpreter_eval_jump_backward(l)

\* the line the SimpleInterpreter has read in this step, empty when it has
\* read none: the two interpreters are given the same input
line_read ==
    IF Len(consumed') > Len(consumed) THEN consumed'[Len(consumed')] ELSE <<>>

\* both interpreters are called with the same program
both_eval(prog) ==
    /\ lib.phase = "idle"
    /\ eval(prog)
    /\ lib' = Interpreter_eval(lib, prog)
    /\ UNCHANGED source

\* the Interpreter takes the turn of its loop that goes with this step of
\* the SimpleInterpreter
both_turn ==
    /\ lib' = IF lib.phase = "running" THEN Interpreter_turn(lib, line_read) ELSE lib
    /\ UNCHANGED source

\* the Interpreter runs on when the SimpleInterpreter has stopped (its init
\* has refused a program that the Interpreter goes on to run)
Interpreter_alone ==
    /\ phase # "running"
    /\ lib.phase = "running"
    /\ Len(lib.output) < MaxOutput
    /\ \E buf \in Lines : lib' = Interpreter_turn(lib, buf)
    /\ UNCHANGED <<pointer, program_cursor, cells, program, jump_table, output,
                   consumed, phase, result, evals, at_call, source>>

\* "++[>[-]<-]": a loop that goes round twice, with a loop inside it
NestedSource ==
    <<Plus, Plus, LeftBracket, Greater, LeftBracket, Minus, RightBracket,
      Less, Minus, RightBracket>>

\* SpecBoth: the programs of Spec, those of SpecBrackets and the nested loop
BothPrograms == Programs \cup BracketPrograms \cup {lex(NestedSource)}

\* one eval call on a fresh SimpleInterpreter and on a fresh Interpreter, the
\* same program and the same input
NextBoth ==
    \/ \E prog \in BothPrograms : evals = 0 /\ both_eval(prog)
    \/ eval_increment_pointer /\ both_turn
    \/ eval_decrement_pointer /\ both_turn
    \/ eval_increment /\ both_turn
    \/ eval_decrement /\ both_turn
    \/ eval_output /\ both_turn
    \/ eval_input /\ both_turn
    \/ eval_jump_forward /\ both_turn
    \/ eval_jump_backward /\ both_turn
    \/ eval_return /\ both_turn
    \/ Interpreter_alone

SpecBoth == Init /\ [][NextBoth]_vars

\* one eval call on a fresh interpreter, any program
Next ==
    \/ /\ \E prog \in Programs : evals = 0 /\ eval(prog)
       /\ UNCHANGED <<source, lib>>
    \/ /\ eval_increment_pointer
       /\ UNCHANGED <<source, lib>>
    \/ /\ eval_decrement_pointer
       /\ UNCHANGED <<source, lib>>
    \/ /\ eval_increment
       /\ UNCHANGED <<source, lib>>
    \/ /\ eval_decrement
       /\ UNCHANGED <<source, lib>>
    \/ /\ eval_output
       /\ UNCHANGED <<source, lib>>
    \/ /\ eval_input
       /\ UNCHANGED <<source, lib>>
    \/ /\ eval_jump_forward
       /\ UNCHANGED <<source, lib>>
    \/ /\ eval_jump_backward
       /\ UNCHANGED <<source, lib>>
    \/ /\ eval_return
       /\ UNCHANGED <<source, lib>>

Spec == Init /\ [][Next]_vars

\* MaxEvals eval calls, one after the other, on the one interpreter
NextReuse ==
    \/ /\ \E prog \in ReusePrograms : evals < MaxEvals /\ eval(prog)
       /\ UNCHANGED <<source, lib>>
    \/ /\ eval_increment_pointer
       /\ UNCHANGED <<source, lib>>
    \/ /\ eval_output
       /\ UNCHANGED <<source, lib>>
    \/ /\ eval_jump_forward
       /\ UNCHANGED <<source, lib>>
    \/ /\ eval_jump_backward
       /\ UNCHANGED <<source, lib>>
    \/ /\ eval_return
       /\ UNCHANGED <<source, lib>>

SpecReuse == Init /\ [][NextReuse]_vars

\* eval, lines 134-150: the turns of the loop on brackets and increments, and
\* the return
BracketsLoop ==
    \/ /\ eval_increment
       /\ UNCHANGED <<source, lib>>
    \/ /\ eval_jump_forward
       /\ UNCHANGED <<source, lib>>
    \/ /\ eval_jump_backward
       /\ UNCHANGED <<source, lib>>
    \/ /\ eval_return
       /\ UNCHANGED <<source, lib>>

\* one eval call on a fresh interpreter, a program of brackets and increments
NextBrackets ==
    \/ /\ \E prog \in BracketPrograms : evals = 0 /\ eval(prog)
       /\ UNCHANGED <<source, lib>>
    \/ BracketsLoop

SpecBrackets == Init /\ [][NextBrackets]_vars

\* the same, with eval's loop running on: nothing stops it from outside, and a
\* turn that can be taken is taken
SpecSpin == Init /\ [][NextBrackets]_vars /\ WF_vars(BracketsLoop)

\* one eval call on a fresh interpreter, a doubling program
NextDouble ==
    \/ /\ \E prog \in DoublePrograms : evals = 0 /\ eval(prog)
       /\ UNCHANGED <<source, lib>>
    \/ /\ eval_increment_pointer
       /\ UNCHANGED <<source, lib>>
    \/ /\ eval_decrement_pointer
       /\ UNCHANGED <<source, lib>>
    \/ /\ eval_increment
       /\ UNCHANGED <<source, lib>>
    \/ /\ eval_decrement
       /\ UNCHANGED <<source, lib>>
    \/ /\ eval_jump_forward
       /\ UNCHANGED <<source, lib>>
    \/ /\ eval_jump_backward
       /\ UNCHANGED <<source, lib>>
    \/ /\ eval_return
       /\ UNCHANGED <<source, lib>>

SpecDouble == Init /\ [][NextDouble]_vars

\* one eval call on a fresh interpreter, a program without brackets and
\* without input or output
NextStraight ==
    \/ /\ \E prog \in StraightPrograms : evals = 0 /\ eval(prog)
       /\ UNCHANGED <<source, lib>>
    \/ /\ eval_increment_pointer
       /\ UNCHANGED <<source, lib>>
    \/ /\ eval_decrement_pointer
       /\ UNCHANGED <<source, lib>>
    \/ /\ eval_increment
       /\ UNCHANGED <<source, lib>>
    \/ /\ eval_decrement
       /\ UNCHANGED <<source, lib>>
    \/ /\ eval_return
       /\ UNCHANGED <<source, lib>>

SpecStraight == Init /\ [][NextStraight]_vars

\* eval, lines 134-150: the turns of the loop and the return
HelloLoop ==
    \/ /\ eval_increment_pointer
       /\ UNCHANGED <<source, lib>>
    \/ /\ eval_decrement_pointer
       /\ UNCHANGED <<source, lib>>
    \/ /\ eval_increment
       /\ UNCHANGED <<source, lib>>
    \/ /\ eval_decrement
       /\ UNCHANGED <<source, lib>>
    \/ /\ eval_output
       /\ UNCHANGED <<source, lib>>
    \/ /\ eval_jump_forward
       /\ UNCHANGED <<source, lib>>
    \/ /\ eval_jump_backward
       /\ UNCHANGED <<source, lib>>
    \/ /\ eval_return
       /\ UNCHANGED <<source, lib>>

\* one eval call on a fresh interpreter, the Hello World program
NextHello ==
    \/ /\ evals = 0 /\ eval(lex(HelloSource))
       /\ UNCHANGED <<source, lib>>
    \/ HelloLoop

\* eval is one sequential call: once it is entered its loop runs on, a turn
\* that can be taken is taken
SpecHello == Init /\ [][NextHello]_vars /\ WF_vars(HelloLoop)

\* main, lines 53-55: the source text is lexed and the tokens are evaluated,
\* once, on a fresh interpreter
NextLex ==
    \/ /\ evals = 0 /\ eval(lex(source))
       /\ UNCHANGED <<source, lib>>
    \/ /\ eval_increment_pointer
       /\ UNCHANGED <<source, lib>>
    \/ /\ eval_decrement_pointer
       /\ UNCHANGED <<source, lib>>
    \/ /\ eval_increment
       /\ UNCHANGED <<source, lib>>
    \/ /\ eval_decrement
       /\ UNCHANGED <<source, lib>>
    \/ /\ eval_output
       /\ UNCHANGED <<source, lib>>
    \/ /\ eval_input
       /\ UNCHANGED <<source, lib>>
    \/ /\ eval_jump_forward
       /\ UNCHANGED <<source, lib>>
    \/ /\ eval_jump_backward
       /\ UNCHANGED <<source, lib>>
    \/ /\ eval_return
       /\ UNCHANGED <<source, lib>>

SpecLex == InitLex /\ [][NextLex]_vars

\* ------------------------------------------------------------------------
\* Brackets of a token sequence, by counting
\* ------------------------------------------------------------------------
Positions(prog) == 0..(Len(prog) - 1)
IsForward(prog, i) == At(prog, i).value = "JumpForward"
IsBackward(prog, i) == At(prog, i).value = "JumpBackward"
BracketPositions(prog) == {i \in Positions(prog) : IsForward(prog, i) \/ IsBackward(prog, i)}

\* the forward brackets less the backward brackets among the first n tokens
Depth(prog, n) ==
    Cardinality({i \in 0..(n - 1) : IsForward(prog, i)})
    - Cardinality({i \in 0..(n - 1) : IsBackward(prog, i)})

\* some backward bracket has no pending forward bracket to its left
HasUnmatchedBackward(prog) == \E n \in 1..Len(prog) : Depth(prog, n) < 0

\* the position of the first such backward bracket
FirstUnmatchedBackward(prog) ==
    CHOOSE i \in Positions(prog) :
        /\ Depth(prog, i + 1) < 0
        /\ \A n \in 1..i : Depth(prog, n) >= 0

\* the forward brackets after which the depth never comes back down
UnmatchedForwards(prog) ==
    {f \in Positions(prog) :
        /\ IsForward(prog, f)
        /\ \A n \in (f + 2)..Len(prog) : Depth(prog, n) > Depth(prog, f)}

EarliestUnmatchedForward(prog) ==
    CHOOSE f \in UnmatchedForwards(prog) : \A g \in UnmatchedForwards(prog) : f <= g

Balanced(prog) == ~HasUnmatchedBackward(prog) /\ Depth(prog, Len(prog)) = 0

\* the tokens strictly between positions f and b are balanced
BalancedBetween(prog, f, b) ==
    /\ \A n \in (f + 1)..b : Depth(prog, n) >= Depth(prog, f + 1)
    /\ Depth(prog, b) = Depth(prog, f + 1)

\* an eval call has returned, and program is the program it was given
Returned == phase = "idle" /\ evals > 0

\* ------------------------------------------------------------------------
\* Claims
\* ------------------------------------------------------------------------

\* C1: when some ']' of the program has no pending '[' to its left, eval
\* returns the error UnmatchedJumpBackwardError located at the first such ']'.
C1_UnmatchedBackwardReported ==
    (Returned /\ HasUnmatchedBackward(program)) =>
        result = Err("UnmatchedJumpBackwardError",
                     At(program, FirstUnmatchedBackward(program)).location)

\* C2: when every ']' of the program is matched and some '[' is not, eval
\* returns the error UnmatchedJumpForwardError located at the earliest '['
\* that has no matching ']'.
C2_UnmatchedForwardReported ==
    (Returned /\ ~HasUnmatchedBackward(program) /\ Depth(program, Len(program)) > 0) =>
        result = Err("UnmatchedJumpForwardError",
                     At(program, EarliestUnmatchedForward(program)).location)

\* an eval call has rejected a program whose earliest unmatched '[' is followed
\* by a matched pair, as in "[[]"
C2_Witness ==
    /\ Returned
    /\ ~HasUnmatchedBackward(program)
    /\ Depth(program, Len(program)) > 0
    /\ result.tag = "Err"
    /\ \E f \in Positions(program) :
          /\ IsForward(program, f)
          /\ f > EarliestUnmatchedForward(program)
          /\ f \notin UnmatchedForwards(program)

\* C3: an eval call on a program with unbalanced brackets returns an error
\* without entering the loop: whatever the instance held at the call, nothing
\* is printed, nothing is read, and the pointer and the program cursor are as
\* the call found them.
C3_NoExecutionWhenUnbalanced ==
    (evals > 0 /\ ~Balanced(program)) =>
        /\ phase = "idle"
        /\ result.tag = "Err"
        /\ output = at_call.output
        /\ consumed = at_call.consumed
        /\ pointer = at_call.pointer
        /\ program_cursor = at_call.program_cursor

\* a second call, made with the pointer and the cursor off zero, has rejected a
\* program whose token at the cursor is an Output standing before or after the
\* offending bracket
C3_Witness ==
    /\ evals = 2
    /\ ~Balanced(program)
    /\ phase = "idle"
    /\ result.tag = "Err"
    /\ at_call.pointer > 0
    /\ at_call.program_cursor < Len(program)
    /\ At(program, at_call.program_cursor).value = "Output"

\* C4: an eval call on an instance that has completed an eval call before
\* enters the loop with the tape <<0>> and the program cursor 0.
C4_SecondEvalStartsFresh ==
    [][(phase = "idle" /\ evals >= 1 /\ phase' = "running") =>
           (cells' = <<0>> /\ program_cursor' = 0)]_vars

\* C5: during the second eval call the key set of the jump table is the set of
\* the bracket positions of the program being run.
C5_TableIsOfCurrentProgram ==
    (phase = "running" /\ evals >= 2) =>
        DOMAIN jump_table = BracketPositions(program)

\* C6: for a balanced program on a fresh interpreter, the jump table has the
\* bracket positions as its domain, maps each position back from its image,
\* maps every '[' to a later ']', and the tokens between the two are balanced.
C6_TableIsNestedInvolution ==
    (evals = 1 /\ Balanced(program)) =>
        /\ DOMAIN jump_table = BracketPositions(program)
        /\ \A i \in DOMAIN jump_table :
              /\ jump_table[i] \in DOMAIN jump_table
              /\ jump_table[jump_table[i]] = i
        /\ \A f \in DOMAIN jump_table :
              IsForward(program, f) =>
                  /\ jump_table[f] \in Positions(program)
                  /\ IsBackward(program, jump_table[f])
                  /\ jump_table[f] > f
                  /\ BalancedBetween(program, f, jump_table[f])

\* a balanced program with one loop inside another has been resolved
C6_Witness ==
    /\ evals = 1
    /\ Balanced(program)
    /\ \E f, g \in DOMAIN jump_table :
          /\ IsForward(program, f)
          /\ IsForward(program, g)
          /\ f < g
          /\ g < jump_table[g]
          /\ jump_table[g] < jump_table[f]

\* C7: an eval call with the same program as the call before leaves the jump
\* table as the call before left it.
C7_SameProgramSameTable ==
    (evals >= 2 /\ at_call.program = program) => jump_table = at_call.jump_table

\* the same program, with a loop, has been given to eval twice
C7_Witness ==
    /\ evals = 2
    /\ at_call.program = program
    /\ Balanced(program)
    /\ BracketPositions(program) # {}
    /\ DOMAIN jump_table = BracketPositions(program)

\* C8: a '<' dispatched with the pointer at 0 makes eval return PointerError
\* with the location of that token and leaves pointer, tape and cursor as
\* they are; dispatched with the pointer above 0 it moves the pointer down by
\* one and the cursor up by one, leaves the tape alone and the loop goes on.
C8_Step ==
    dispatch("DecrementPointer") =>
        IF pointer = 0
        THEN /\ result' = Err("PointerError", At(program, program_cursor).location)
             /\ phase' = "idle"
             /\ pointer' = 0
             /\ cells' = cells
             /\ program_cursor' = program_cursor
        ELSE /\ result' = NoResult
             /\ phase' = "running"
             /\ pointer' = pointer - 1
             /\ cells' = cells
             /\ program_cursor' = program_cursor + 1

C8_DecrementPointer == [][C8_Step]_vars

\* "><<" has run: the first '<' moved the pointer back to 0 over a tape of two
\* cells, the second one failed at the third token
C8_Witness ==
    /\ phase = "idle"
    /\ Len(program) = 3
    /\ result = Err("PointerError", At(program, 2).location)
    /\ program_cursor = 2
    /\ pointer = 0
    /\ cells = <<0, 0>>

\* C9: '>' never fails; while a call runs the tape never gets shorter, and it
\* changes its length only on a '>', by one zero cell appended, and only when
\* the new pointer equals the old length of the tape; a '>' leaves the cells
\* there were as they are.
C9_Step ==
    phase = "running" =>
        /\ Len(cells') >= Len(cells)
        /\ dispatch("IncrementPointer") => SubSeq(cells', 1, Len(cells)) = cells
        /\ Len(cells') # Len(cells) =>
              /\ dispatch("IncrementPointer")
              /\ cells' = Append(cells, 0)
              /\ pointer' = Len(cells)
        /\ dispatch("IncrementPointer") => (phase' = "running" /\ result' = result)

C9_TapeGrowth == [][C9_Step]_vars

\* C10: '+' and '-' on the cell at the pointer: 255 goes to 0 and 0 to 255,
\* any other value goes up or down by one; the other cells, the pointer and the
\* output stay, the cursor goes up by one; every cell stays within 0..255; and
\* a '-' undoes a '+' on every value.
C10_Step ==
    /\ \A i \in 1..Len(cells') : cells'[i] \in 0..255
    /\ (dispatch("Increment") /\ InBounds) =>
          /\ cells' = [cells EXCEPT ![pointer + 1] = IF @ = 255 THEN 0 ELSE @ + 1]
          /\ pointer' = pointer
          /\ output' = output
          /\ program_cursor' = program_cursor + 1
    /\ (dispatch("Decrement") /\ InBounds) =>
          /\ cells' = [cells EXCEPT ![pointer + 1] = IF @ = 0 THEN 255 ELSE @ - 1]
          /\ pointer' = pointer
          /\ output' = output
          /\ program_cursor' = program_cursor + 1
    /\ \A v \in 0..255 : wrapping_sub(wrapping_add(v)) = v

C10_CellArithmetic == [][C10_Step]_vars

\* "-+" has run: the cell went from 0 to 255 and from 255 back to 0
C10_Witness ==
    /\ phase = "running"
    /\ Len(program) = 2
    /\ At(program, 0).value = "Decrement"
    /\ At(program, 1).value = "Increment"
    /\ program_cursor = 2
    /\ cells = <<0>>

\* the ']' that closes the '[' at position f, by counting
MatchingBackward(prog, f) ==
    CHOOSE b \in Positions(prog) :
        /\ b > f
        /\ IsBackward(prog, b)
        /\ Depth(prog, b + 1) = Depth(prog, f)
        /\ \A n \in (f + 1)..b : Depth(prog, n) > Depth(prog, f)

\* the '[' that the ']' at position b closes
MatchingForward(prog, b) ==
    CHOOSE f \in Positions(prog) :
        /\ f < b
        /\ IsForward(prog, f)
        /\ MatchingBackward(prog, f) = b

\* C11: a bracket dispatch changes the program cursor and nothing else. At a
\* '[' with a non-zero cell or a ']' with a zero cell the cursor goes up by
\* one. At a '[' with a zero cell the cursor is set to the matching ']' and the
\* next dispatch is that ']' on a zero cell, which falls through; at a ']' with
\* a non-zero cell the cursor is set to the matching '[' and the next dispatch
\* is that '[' on a non-zero cell, which falls through.
C11_Step ==
    /\ (dispatch("JumpForward") /\ InBounds) =>
          /\ IF cells[pointer + 1] # 0
             THEN program_cursor' = program_cursor + 1
             ELSE /\ program_cursor' = MatchingBackward(program, program_cursor)
                  /\ dispatch("JumpBackward")'
                  /\ cells'[pointer' + 1] = 0
          /\ UNCHANGED <<cells, pointer, output, phase, result>>
    /\ (dispatch("JumpBackward") /\ InBounds) =>
          /\ IF cells[pointer + 1] = 0
             THEN program_cursor' = program_cursor + 1
             ELSE /\ program_cursor' = MatchingForward(program, program_cursor)
                  /\ dispatch("JumpForward")'
                  /\ cells'[pointer' + 1] # 0
          /\ UNCHANGED <<cells, pointer, output, phase, result>>

C11_BracketDispatch == [][C11_Step]_vars

\* "+[+]" is back at its '[' with the cell at 2: the ']' has jumped back once
C11_Witness ==
    /\ phase = "running"
    /\ Len(program) = 4
    /\ At(program, 0).value = "Increment"
    /\ At(program, 1).value = "JumpForward"
    /\ At(program, 2).value = "Increment"
    /\ At(program, 3).value = "JumpBackward"
    /\ program_cursor = 1
    /\ cells = <<2>>

\* no bracket and no Input among the tokens
StraightLine(prog) ==
    \A i \in Positions(prog) :
        At(prog, i).value \notin {"JumpForward", "JumpBackward", "Input"}

\* C12: eval returns success exactly when the program cursor reaches the length
\* of the program, and the cursor never exceeds that length; a program without
\* brackets and without Input ends, with success or PointerError, after at
\* most as many dispatches as it has tokens, each one moving the cursor up by
\* exactly one.
C12_Step ==
    /\ evals' > 0 => program_cursor' <= Len(program')
    /\ (phase = "running" /\ phase' = "idle" /\ result'.tag = "Ok") =>
          program_cursor = Len(program)
    /\ (phase = "running" /\ program_cursor = Len(program)) =>
          (phase' = "idle" /\ result' = Ok(0))
    /\ (evals' > 0 /\ StraightLine(program')) =>
          /\ phase' # "panicked"
          /\ result'.tag = "Err" => result'.value = "PointerError"
          /\ program_cursor' - at_call'.program_cursor <= Len(program')
          /\ (phase = "running" /\ program_cursor < Len(program)) =>
                \/ program_cursor' = program_cursor + 1
                \/ phase' = "idle" /\ result'.tag = "Err"

C12_Termination == [][C12_Step]_vars

\* C13: for n in 1..127, n increments followed by "[>++<-]" on a fresh
\* interpreter: no error; each time the run stands at the ']' the loop body has
\* run k times for some k in 1..n and the tape is <<n - k, 2k>> with the
\* pointer at 0; the run ends with Ok, the tape <<0, 2n>> and the pointer at 0.
C13_Doubling ==
    LET n == Len(program) - 7 IN
    (evals > 0 /\ n \in 1..127 /\ program = lex(DoubleSource(n))) =>
        /\ phase # "panicked"
        /\ result.tag # "Err"
        /\ (phase = "running" /\ program_cursor = n + 6) =>
              /\ pointer = 0
              /\ \E k \in 1..n : cells = <<n - k, 2 * k>>
        /\ Returned =>
              /\ result = Ok(0)
              /\ cells = <<0, 2 * n>>
              /\ pointer = 0

\* the run of 127 increments and the loop has ended with the tape <<0, 254>>
C13_Witness ==
    /\ Returned
    /\ program = lex(DoubleSource(127))
    /\ result = Ok(0)
    /\ cells = <<0, 254>>
    /\ pointer = 0

\* ------------------------------------------------------------------------
\* A program without brackets, by counting
\* ------------------------------------------------------------------------
\* the number of tokens of this kind among the first k
CountKind(prog, kind, k) ==
    Cardinality({i \in 0..(k - 1) : At(prog, i).value = kind})

\* '>' minus '<' among the first k tokens
PointerAfter(prog, k) ==
    CountKind(prog, "IncrementPointer", k) - CountKind(prog, "DecrementPointer", k)

\* no prefix holds more '<' than '>'
NoUnderflow(prog) == \A k \in 0..Len(prog) : PointerAfter(prog, k) >= 0

\* the largest value the pointer takes
MaxPointer(prog) ==
    CHOOSE m \in {PointerAfter(prog, k) : k \in 0..Len(prog)} :
        \A k \in 0..Len(prog) : PointerAfter(prog, k) <= m

\* '+' minus '-' among the tokens met with the pointer on cell c, as a byte
NetOn(prog, c) ==
    (Cardinality({i \in Positions(prog) :
                    At(prog, i).value = "Increment" /\ PointerAfter(prog, i) = c})
     - Cardinality({i \in Positions(prog) :
                    At(prog, i).value = "Decrement" /\ PointerAfter(prog, i) = c}))
    % 256

\* C14: a program of '>', '<', '+' and '-' none of whose prefixes holds more
\* '<' than '>', run on a fresh interpreter, returns Ok; the pointer ends at
\* the number of '>' less the number of '<', the tape is one cell longer than
\* the largest pointer reached, and each cell holds the '+' less the '-' met
\* on it, modulo 256
C14_StraightLineRun ==
    (/\ evals > 0
     /\ \A i \in Positions(program) :
            At(program, i).value \in {"IncrementPointer", "DecrementPointer",
                                      "Increment", "Decrement"}
     /\ NoUnderflow(program)) =>
        /\ phase # "panicked"
        /\ result.tag # "Err"
        /\ Returned =>
              /\ result = Ok(0)
              /\ pointer = PointerAfter(program, Len(program))
              /\ Len(cells) = 1 + MaxPointer(program)
              /\ \A c \in 0..MaxPointer(program) : cells[c + 1] = NetOn(program, c)

\* the program of test_interpreter has returned, as the test asserts
C14_Witness ==
    /\ Returned
    /\ program = lex(TestSource)
    /\ result = Ok(0)
    /\ cells = <<2, 1, 0>>
    /\ pointer = 1

\* C15: the output only grows: a '.' appends exactly one byte, the value of the
\* cell at the pointer, and leaves the tape and the pointer alone; no other
\* step changes the output; what was written stays written, whatever eval
\* ends with
C15_Step ==
    /\ (dispatch("Output") /\ InBounds) =>
          /\ output' = Append(output, cells[pointer + 1])
          /\ cells' = cells
          /\ pointer' = pointer
    /\ ~dispatch("Output") => output' = output
    /\ Len(output') >= Len(output)
    /\ SubSeq(output', 1, Len(output)) = output

C15_OutputAppendOnly == [][C15_Step]_vars

\* "Hello World!" and a newline
HelloBytes == <<72, 101, 108, 108, 111, 32, 87, 111, 114, 108, 100, 33, 10>>

\* C16: the Hello World program, lexed and run on a fresh interpreter, meets no
\* error on the way, and once eval is called it returns Ok having written
\* exactly "Hello World!\n"
C16_HelloWorld ==
    /\ [](phase # "panicked" /\ result.tag # "Err")
    /\ (evals > 0) ~> (Returned /\ result = Ok(0) /\ output = HelloBytes)

\* the run has ended with the thirteen bytes written
C16_Witness ==
    /\ Returned
    /\ Len(program) = Len(HelloSource)
    /\ result = Ok(0)
    /\ output = HelloBytes

\* ------------------------------------------------------------------------
\* The tokens of a source text, by counting
\* ------------------------------------------------------------------------
IsInstruction(b) == b \in InstructionBytes

\* the instruction characters and what each stands for
KindTable ==
    [b \in InstructionBytes |->
        IF b = Greater THEN "IncrementPointer"
        ELSE IF b = Less THEN "DecrementPointer"
        ELSE IF b = Plus THEN "Increment"
        ELSE IF b = Minus THEN "Decrement"
        ELSE IF b = Dot THEN "Output"
        ELSE IF b = Comma THEN "Input"
        ELSE IF b = LeftBracket THEN "JumpForward"
        ELSE "JumpBackward"]

\* C17: the kinds of the tokens lexed from a source text are its instruction
\* bytes, in order, each mapped by the table; every other byte, the newline
\* too, gives no token, so there are as many tokens as instruction bytes
C17_LexKinds ==
    evals > 0 =>
        LET ins == SelectSeq(source, IsInstruction) IN
        /\ Len(program) = Len(ins)
        /\ Len(program) = Cardinality({k \in 1..Len(source) : IsInstruction(source[k])})
        /\ \A j \in 1..Len(ins) : program[j].value = KindTable[ins[j]]

\* the source of test_lexer has been lexed into the ten kinds the test lists
C17_Witness ==
    /\ evals > 0
    /\ source = LexerTestSource
    /\ [j \in 1..Len(program) |-> program[j].value] =
          <<"Increment", "JumpForward", "Output", "Increment", "JumpBackward",
            "IncrementPointer", "Input", "Decrement", "Output", "DecrementPointer">>

\* the place in the source (1-based) of its j-th instruction byte
InstructionAt(src, j) ==
    CHOOSE k \in 1..Len(src) :
        /\ IsInstruction(src[k])
        /\ Cardinality({m \in 1..k : IsInstruction(src[m])}) = j

NewlinesBefore(src, k) == Cardinality({m \in 1..(k - 1) : src[m] = Newline})

\* the place of the last newline before place k, 0 when there is none
LastNewlineBefore(src, k) ==
    LET before == {0} \cup {m \in 1..(k - 1) : src[m] = Newline} IN
    CHOOSE m \in before : \A n \in before : n <= m

LocationLess(a, b) == a.line < b.line \/ (a.line = b.line /\ a.col < b.col)

\* C18: a token's line is one more than the number of newlines before it and
\* its column one more than the number of bytes between it and the newline
\* before it (or the start): lexing starts at (1,1), the byte after a newline
\* is at column 1, a skipped byte still takes a column; the locations grow
\* strictly from token to token
C18_LexLocations ==
    evals > 0 =>
        \A j \in 1..Len(program) :
            LET k == InstructionAt(source, j) IN
            /\ program[j].location =
                  Location(1 + NewlinesBefore(source, k), k - LastNewlineBefore(source, k))
            /\ \A i \in 1..(j - 1) :
                  LocationLess(program[i].location, program[j].location)

\* the source of test_lexer has been lexed, its tokens at the places the test
\* lists: columns 1 to 5 of line 1 and columns 1 to 5 of line 2
C18_Witness ==
    /\ evals > 0
    /\ source = LexerTestSource
    /\ [j \in 1..Len(program) |-> program[j].location] =
          <<Location(1, 1), Location(1, 2), Location(1, 3), Location(1, 4),
            Location(1, 5), Location(2, 1), Location(2, 2), Location(2, 3),
            Location(2, 4), Location(2, 5)>>

\* C19: a ',' that gets a line reads exactly one line, the next of the
\* input, and stores its first byte in the cell at the pointer, whatever
\* else the line holds: the k-th ',' gets the first byte of the k-th line. The
\* pointer, the other cells and the output stay as they are and the cursor
\* moves on by one
C19_Step ==
    (dispatch("Input") /\ InBounds /\ consumed' # consumed) =>
        LET k == Len(consumed) + 1 IN
        /\ Len(consumed') = k
        /\ SubSeq(consumed', 1, k - 1) = consumed
        /\ consumed'[k] \in Lines
        /\ cells' = [cells EXCEPT ![pointer + 1] = consumed'[k][1]]
        /\ pointer' = pointer
        /\ output' = output
        /\ program_cursor' = program_cursor + 1
        /\ phase' = "running"

C19_InputFirstByte == [][C19_Step]_vars

\* ",>," has read a line of three bytes and then a bare newline: the first
\* cell holds the first byte of the first, the second that of the second
C19_Witness ==
    /\ phase = "running"
    /\ program_cursor = 3
    /\ Len(program) = 3
    /\ consumed = <<(<<65, 66, Newline>>), (<<Newline>>)>>
    /\ cells = <<65, Newline>>
    /\ pointer = 1
    /\ output = <<>>

\* C20: on a program whose brackets balance, run on fresh instances with the
\* same input, the Interpreter of lib.rs and the SimpleInterpreter go through
\* the same cursor, pointer, tape and output, step by step, and end with the
\* same result
C20_SameRun ==
    (evals > 0 /\ Balanced(program)) =>
        /\ lib.program = program
        /\ lib.program_cursor = program_cursor
        /\ lib.pointer = pointer
        /\ lib.cells = cells
        /\ lib.output = output
        /\ lib.phase = phase
        /\ lib.result = result

\* both have returned from the nested loop, where the outer ']' has looked
\* back for its '[' across the inner pair
C20_Witness ==
    /\ Returned
    /\ program = lex(NestedSource)
    /\ result = Ok(0)
    /\ cells = <<0, 0>>
    /\ lib.phase = "idle"
    /\ lib.result = Ok(0)
    /\ lib.cells = <<0, 0>>
    /\ lib.program_cursor = Len(program)

\* C21: in every state of a SimpleInterpreter, through a second and any later
\* eval call on it too, the pointer is below the length of the tape, so that
\* the cell at the pointer is always there
C21_PointerInBounds == pointer < Len(cells)

\* the number of '+' the program starts with
LeadingIncrements(prog) ==
    Cardinality({i \in Positions(prog) :
                    \A j \in 0..i : At(prog, j).value = "Increment"})

\* the brackets balance, and the program is some '+', then "[]", then
\* anything: a loop with nothing in it, met on a cell that is not zero
Spins(prog) ==
    LET f == LeadingIncrements(prog) IN
    /\ Balanced(prog)
    /\ f >= 1
    /\ f + 1 < Len(prog)
    /\ At(prog, f).value = "JumpForward"
    /\ At(prog, f + 1).value = "JumpBackward"

\* eval is in the loop of such a program: the cursor is on one of its brackets
Spinning ==
    /\ evals > 0
    /\ Spins(program)
    /\ program_cursor >= LeadingIncrements(program)

\* C22: nothing stops a loop that never brings its cell to zero, "+[]" for
\* one: eval does not return and raises no error, the cursor stays below the
\* length of the program, and once in the loop the tape and the pointer stay
\* as they are while the cursor goes from one bracket to the other, again and
\* again, for ever
C22_NoWatchdog ==
    /\ []((evals > 0 /\ Spins(program)) =>
             /\ phase = "running"
             /\ result = NoResult
             /\ program_cursor < Len(program))
    /\ [](Spinning =>
             /\ program_cursor \in {LeadingIncrements(program),
                                    LeadingIncrements(program) + 1}
             /\ cells = <<LeadingIncrements(program)>>
             /\ pointer = 0)
    /\ [][Spinning =>
             /\ program_cursor' = 2 * LeadingIncrements(program) + 1 - program_cursor
             /\ cells' = cells
             /\ pointer' = pointer]_vars
    /\ []((evals > 0 /\ Spins(program)) =>
             <>(program_cursor = LeadingIncrements(program)))
    /\ []((evals > 0 /\ Spins(program)) =>
             <>(program_cursor = LeadingIncrements(program) + 1))

\* "+[]" is at its ']' with the cell at 1, about to go back to the '['
C22_Witness ==
    /\ Spinning
    /\ Len(program) = 3
    /\ phase = "running"
    /\ program_cursor = 2
    /\ cells = <<1>>
    /\ pointer = 0

====
